---- MODULE Spec2Model ----
(***************************************************************************)
(* A model of toolbox/utils.py: the index-candidate extraction of Table,   *)
(* the QueryBenchmark scope and comparison, record_query and               *)
(* Query.get_sample.                                                       *)
(*                                                                         *)
(* The module holds one specification per component:                       *)
(*   SpecWhere   the token walk of find_index_candidates_from_where_query  *)
(*   Spec        Table.find_index_candidates over a batch of statements    *)
(*   SpecBench   QueryBenchmark used as a scope, then compared             *)
(*   SpecRecord  record_query followed by save                             *)
(*   SpecSample  Query.get_sample                                          *)
(* A specification leaves the variables of the other components at their   *)
(* idle values.                                                            *)
(***************************************************************************)
EXTENDS Integers, Sequences, FiniteSets, TLC

VARIABLES
    \* ---- find_index_candidates_from_where_query (one statement)
    ic_operator,            \* local ic_operator
    query_index_candidate,  \* local query_index_candidate: list of groups
    index_candidate,        \* local index_candidate after the last comparison
    w_expect,               \* what the clause may continue with: "cmp" or "kw"
    w_ntok,                 \* tokens of the clause consumed so far
    w_base,                 \* history: the active group before the last comparison
    w_offered,              \* history: names passed to append by the last comparison
    w_run,                  \* history: columns of the comparisons AND-joined with the last one
    \* ---- find_index_candidates (a batch)
    queries,                \* argument queries
    qualifier,              \* argument qualifier
    q_pos,                  \* statements of the batch consumed so far
    index_candidates,       \* local index_candidates
    fic_status,             \* "running", "returned" or "raised"
    \* ---- QueryBenchmark
    db,                     \* the planner's answer per candidate, as it is now
    before,                 \* self.before
    after,                  \* self.after
    qb_state,               \* "Idle", "BeforeCaptured", "AfterCaptured"
    step,                   \* the caller's step: "pending", "done", "failed"
    log,                    \* history: the order of captures and the caller's step
    unchanged,              \* get_unchanged_results: status "none", "ok" or "error", and the items yielded
    \* ---- record_query
    store,                  \* the saved MariaDB Query documents
    pending,                \* the document record_query returned, not saved yet
    saved_name,             \* history: per text, the names save returned
    calls,                  \* history: per text, how often it was recorded
    \* ---- Query.get_sample
    sql,                    \* self.sql
    sample,                 \* the value returned
    gs_pc                   \* "init" or "done"

whereVars  == <<ic_operator, query_index_candidate, index_candidate, w_expect,
                w_ntok, w_base, w_offered, w_run>>
batchVars  == <<queries, qualifier, q_pos, index_candidates, fic_status>>
benchVars  == <<db, before, after, qb_state, step, log, unchanged>>
recordVars == <<store, pending, saved_name, calls>>
sampleVars == <<sql, sample, gs_pc>>
vars == <<whereVars, batchVars, benchVars, recordVars, sampleVars>>

None == "None"

Range(s) == {s[i] : i \in DOMAIN s}

NoDup(s) == \A i, j \in DOMAIN s : i # j => s[i] # s[j]

----------------------------------------------------------------------------
(* Idle values of each component's variables.                              *)

WhereIdle ==
    /\ ic_operator = "AND"
    /\ query_index_candidate = <<>>
    /\ index_candidate = <<>>
    /\ w_expect = "cmp"
    /\ w_ntok = 0
    /\ w_base = <<>>
    /\ w_offered = <<>>
    /\ w_run = {}

BatchIdle ==
    /\ queries = <<>>
    /\ qualifier = None
    /\ q_pos = 0
    /\ index_candidates = <<>>
    /\ fic_status = "running"

BenchIdle ==
    /\ db = <<>>
    /\ before = <<>>
    /\ after = <<>>
    /\ qb_state = "Idle"
    /\ step = "pending"
    /\ log = <<>>
    /\ unchanged = [status |-> "none", items |-> <<>>]

RecordIdle ==
    /\ store = <<>>
    /\ pending = <<>>
    /\ saved_name = <<>>
    /\ calls = <<>>

SampleIdle ==
    /\ sql = <<>>
    /\ sample = <<>>
    /\ gs_pc = "init"

----------------------------------------------------------------------------
(* IndexCandidate and the walk over the tokens of a filter clause.         *)

\* The table under analysis (self.name) and another table of a join.
SelfName == "tabNote"
OtherName == "tabUser"

\* An Identifier token: <<get_parent_name(), get_name()>>.
Identifiers ==
    {<<None, "a">>, <<None, "b">>, <<None, "c">>, <<SelfName, "a">>, <<OtherName, "c">>}

\* A Comparison token, given by its Identifier children in order (literals
\* and operators are the children the walk skips).
Comparisons ==
    {<<i>> : i \in Identifiers}
        \cup {<<>>}
        \cup {<<<<None, "a">>, <<None, "b">>>>, <<<<None, "b">>, <<None, "a">>>>,
              <<<<None, "a">>, <<None, "a">>>>, <<<<None, "a">>, <<OtherName, "c">>>>,
              <<<<OtherName, "a">>, <<SelfName, "b">>>>}

\* Values of the AND / OR keyword tokens as written in a statement.
KeywordValues == {"AND", "OR", "and", "or"}

Upper(v) == CASE v = "and" -> "AND" [] v = "or" -> "OR" [] OTHER -> v

\* IndexCandidate.append without the membership test.
IndexCandidateAppendAlways(c, x) == Append(c, x)

\* IndexCandidate.append
IndexCandidateAppend(c, x) == IF x \in Range(c) THEN c ELSE Append(c, x)

RECURSIVE AppendAll(_, _)
\* a run of index_candidate.append(name) calls
AppendAll(c, names) ==
    IF names = <<>> THEN c
    ELSE AppendAll(IndexCandidateAppend(c, Head(names)), Tail(names))

RECURSIVE OwnNames(_, _)
\* The names a comparison passes to append: its identifiers whose parent
\* name is None or the table's name.
OwnNames(name, ids) ==
    IF ids = <<>> THEN <<>>
    ELSE IF Head(ids)[1] \in {None, name}
         THEN <<Head(ids)[2]>> \o OwnNames(name, Tail(ids))
         ELSE OwnNames(name, Tail(ids))

\* The group a comparison works on: a new one under OR or when the
\* statement has none yet, else the last group of the statement.
OpensGroup(op, qic) == op = "OR" \/ qic = <<>>

ActiveBase(op, qic) == IF OpensGroup(op, qic) THEN <<>> ELSE qic[Len(qic)]

\* One Comparison token: the new query_index_candidate. The last group is
\* the very object that is appended to, so it changes in place; a new group
\* is kept only if no equal group is in the list.
ComparisonStep(name, op, qic, ids) ==
    LET ic == AppendAll(ActiveBase(op, qic), OwnNames(name, ids))
    IN  IF OpensGroup(op, qic)
        THEN IF ic \in Range(qic) THEN qic ELSE Append(qic, ic)
        ELSE [qic EXCEPT ![Len(qic)] = ic]

InitWhere ==
    /\ WhereIdle /\ BatchIdle /\ BenchIdle /\ RecordIdle /\ SampleIdle

MaxTokens == 7

\* A Keyword token whose value is AND or OR.
KeywordToken ==
    /\ w_ntok < MaxTokens
    /\ w_expect = "kw"
    /\ \E v \in KeywordValues : ic_operator' = Upper(v)
    /\ w_expect' = "cmp"
    /\ w_ntok' = w_ntok + 1
    /\ UNCHANGED <<query_index_candidate, index_candidate, w_base, w_offered, w_run>>
    /\ UNCHANGED <<batchVars, benchVars, recordVars, sampleVars>>

\* A token that is neither such a keyword nor a Comparison (the WHERE
\* keyword, whitespace, a parenthesis, a literal).
OtherToken ==
    /\ w_ntok < MaxTokens
    /\ w_ntok' = w_ntok + 1
    /\ UNCHANGED <<ic_operator, query_index_candidate, index_candidate, w_expect,
                   w_base, w_offered, w_run>>
    /\ UNCHANGED <<batchVars, benchVars, recordVars, sampleVars>>

\* A Comparison token.
ComparisonToken ==
    /\ w_ntok < MaxTokens
    /\ w_expect = "cmp"
    /\ \E ids \in Comparisons :
        /\ query_index_candidate' =
               ComparisonStep(SelfName, ic_operator, query_index_candidate, ids)
        /\ index_candidate' =
               AppendAll(ActiveBase(ic_operator, query_index_candidate),
                         OwnNames(SelfName, ids))
        /\ w_base' = ActiveBase(ic_operator, query_index_candidate)
        /\ w_offered' = OwnNames(SelfName, ids)
        /\ w_run' = IF OpensGroup(ic_operator, query_index_candidate)
                    THEN Range(OwnNames(SelfName, ids))
                    ELSE w_run \cup Range(OwnNames(SelfName, ids))
    /\ w_expect' = "kw"
    /\ w_ntok' = w_ntok + 1
    /\ UNCHANGED ic_operator
    /\ UNCHANGED <<batchVars, benchVars, recordVars, sampleVars>>

NextWhere == KeywordToken \/ OtherToken \/ ComparisonToken

SpecWhere == InitWhere /\ [][NextWhere]_vars

\* The elements of s, each kept where it first appears.
FirstAppearance(s) ==
    LET keep == {i \in DOMAIN s : \A j \in 1..(i - 1) : s[j] # s[i]}
        F[i \in 0..Len(s)] ==
            IF i = 0 THEN <<>>
            ELSE IF i \in keep THEN Append(F[i - 1], s[i]) ELSE F[i - 1]
    IN  F[Len(s)]

\* C1: the columns of all the comparisons joined by AND with the one just
\* walked are together in one group of the statement, whatever the AND/OR
\* sequence before them.
C1_AndJoinedShareGroup ==
    w_expect = "kw" =>
        \E i \in DOMAIN query_index_candidate : w_run \subseteq Range(query_index_candidate[i])

\* C7: every candidate is free of duplicate column names and keeps the
\* order of first appearance: the group a comparison worked on is the group
\* as it was, followed by the comparison's new columns, each once.
C7_NoDuplicateColumns ==
    /\ \A i \in DOMAIN query_index_candidate : NoDup(query_index_candidate[i])
    /\ NoDup(index_candidate)
    /\ index_candidate = FirstAppearance(w_base \o w_offered)
    /\ w_expect = "kw" /\ ~OpensGroup(ic_operator, query_index_candidate)
           => query_index_candidate[Len(query_index_candidate)] = index_candidate

\* A group that grew over AND-joined comparisons, the last of which named a
\* column it already held and a column it did not.
C7_Witness ==
    /\ w_expect = "kw"
    /\ ic_operator = "AND"
    /\ w_base # <<>>
    /\ \E x \in Range(w_offered) : x \in Range(w_base)
    /\ \E x \in Range(w_offered) : x \notin Range(w_base)
    /\ Len(index_candidate) = Len(w_base) + 1

----------------------------------------------------------------------------
(* Table.find_index_candidates over a batch of statements.                 *)

\* Tokens of a filter clause.
Kw(v) == [t |-> "kw", v |-> v, ids |-> <<>>]
Cmp(ids) == [t |-> "cmp", v |-> None, ids |-> ids]

RECURSIVE WalkWhere(_, _, _, _)
\* The loop over the tokens of the Where clause, from the operator and the
\* groups so far.
WalkWhere(name, op, qic, tokens) ==
    IF tokens = <<>> THEN qic
    ELSE LET tok == Head(tokens)
         IN  IF tok.t = "kw" /\ Upper(tok.v) \in {"AND", "OR"}
             THEN WalkWhere(name, Upper(tok.v), qic, Tail(tokens))
             ELSE IF tok.t = "cmp"
                  THEN WalkWhere(name, op, ComparisonStep(name, op, qic, tok.ids),
                                 Tail(tokens))
                  ELSE WalkWhere(name, op, qic, Tail(tokens))

\* Table.find_index_candidates_from_where_query
find_index_candidates_from_where_query(name, query) ==
    WalkWhere(name, "AND", <<>>, query.tokens)

RECURSIVE SelectColumns(_, _, _)
\* The loop over query.d_parsed.columns; a column is <<table, name>>, its
\* table None when the column holds no dot.
SelectColumns(c, table, columns) ==
    IF columns = <<>> THEN c
    ELSE LET tbl == Head(columns)[1]
             col == Head(columns)[2]
             next == IF tbl # None
                     THEN IF table = None THEN IndexCandidateAppend(c, col)
                          ELSE IF tbl = table THEN IndexCandidateAppend(c, col)
                          ELSE c
                     ELSE IndexCandidateAppend(c, col)
         IN  SelectColumns(next, table, Tail(columns))

\* Table.find_index_candidates_from_select_query
find_index_candidates_from_select_query(query) ==
    IF query.kind # "select" THEN <<>>
    ELSE SelectColumns(<<>>, query.table, query.columns)

RECURSIVE MergeCandidates(_, _)
\* for c in ...: if c and c not in index_candidates: index_candidates.append(c)
MergeCandidates(ics, found) ==
    IF found = <<>> THEN ics
    ELSE LET c == Head(found)
         IN  MergeCandidates(IF c # <<>> /\ c \notin Range(ics) THEN Append(ics, c) ELSE ics,
                             Tail(found))

\* Query.parsed: parse(self.sql)[0]; the parse of an empty text is an empty
\* tuple, so taking its first statement raises.
ParsedRaises(query) == query.kind = "empty"

\* any(isinstance(token, Where) for token in query.parsed)
HasWhere(query) == query.kind = "where"

\* The qualifier passes the statement ("owned": a caller's predicate that
\* keeps the statements constructed with an owner table).
Qualifies(q, query) == q = None \/ query.table # None

\* Statements of the batches.
BatchComparisons ==
    {<<<<None, "a">>>>, <<<<OtherName, "c">>>>, <<<<None, "a">>, <<None, "b">>>>}

WhereClauses ==
    {<<Cmp(x)>> : x \in BatchComparisons}
        \cup {<<Cmp(x), Kw(k), Cmp(y)>> :
                  x \in BatchComparisons, k \in {"AND", "or"}, y \in BatchComparisons}

SelectIdentifiers == {<<None, "a">>, <<SelfName, "b">>, <<OtherName, "c">>}

ColumnLists ==
    {<<x>> : x \in SelectIdentifiers} \cup (SelectIdentifiers \X SelectIdentifiers)

Query(kind, table, tokens, columns) ==
    [kind |-> kind, table |-> table, tokens |-> tokens, columns |-> columns]

Statements ==
    {Query("empty", None, <<>>, <<>>), Query("other", SelfName, <<>>, <<>>)}
        \cup {Query("where", SelfName, w, <<>>) : w \in WhereClauses}
        \cup {Query("select", tb, <<>>, cl) :
                  tb \in {None, SelfName, OtherName}, cl \in ColumnLists}

MaxQueries == 2

Batches == UNION {[1..n -> Statements] : n \in 1..MaxQueries}

Init ==
    /\ queries \in Batches
    /\ qualifier \in {None, "owned"}
    /\ q_pos = 0
    /\ index_candidates = <<>>
    /\ fic_status = "running"
    /\ WhereIdle /\ BenchIdle /\ RecordIdle /\ SampleIdle

\* One pass of the loop over queries, for a statement the qualifier drops.
SkipQuery ==
    /\ fic_status = "running"
    /\ q_pos < Len(queries)
    /\ ~Qualifies(qualifier, queries[q_pos + 1])
    /\ q_pos' = q_pos + 1
    /\ UNCHANGED <<queries, qualifier, index_candidates, fic_status>>
    /\ UNCHANGED <<whereVars, benchVars, recordVars, sampleVars>>

\* One pass of the loop, for a statement whose text does not parse: the
\* exception leaves find_index_candidates.
ParseFailure ==
    /\ fic_status = "running"
    /\ q_pos < Len(queries)
    /\ Qualifies(qualifier, queries[q_pos + 1])
    /\ ParsedRaises(queries[q_pos + 1])
    /\ fic_status' = "raised"
    /\ q_pos' = q_pos + 1
    /\ UNCHANGED <<queries, qualifier, index_candidates>>
    /\ UNCHANGED <<whereVars, benchVars, recordVars, sampleVars>>

\* One pass of the loop, for a statement with a Where clause.
WhereQuery ==
    /\ fic_status = "running"
    /\ q_pos < Len(queries)
    /\ Qualifies(qualifier, queries[q_pos + 1])
    /\ ~ParsedRaises(queries[q_pos + 1])
    /\ HasWhere(queries[q_pos + 1])
    /\ index_candidates' =
           MergeCandidates(index_candidates,
               find_index_candidates_from_where_query(SelfName, queries[q_pos + 1]))
    /\ q_pos' = q_pos + 1
    /\ UNCHANGED <<queries, qualifier, fic_status>>
    /\ UNCHANGED <<whereVars, benchVars, recordVars, sampleVars>>

\* One pass of the loop, for a statement without a Where clause.
SelectQuery ==
    /\ fic_status = "running"
    /\ q_pos < Len(queries)
    /\ Qualifies(qualifier, queries[q_pos + 1])
    /\ ~ParsedRaises(queries[q_pos + 1])
    /\ ~HasWhere(queries[q_pos + 1])
    /\ LET ic == find_index_candidates_from_select_query(queries[q_pos + 1])
       IN  index_candidates' = IF ic # <<>> THEN Append(index_candidates, ic)
                               ELSE index_candidates
    /\ q_pos' = q_pos + 1
    /\ UNCHANGED <<queries, qualifier, fic_status>>
    /\ UNCHANGED <<whereVars, benchVars, recordVars, sampleVars>>

\* return index_candidates
Return ==
    /\ fic_status = "running"
    /\ q_pos = Len(queries)
    /\ fic_status' = "returned"
    /\ UNCHANGED <<queries, qualifier, q_pos, index_candidates>>
    /\ UNCHANGED <<whereVars, benchVars, recordVars, sampleVars>>

Next == SkipQuery \/ ParseFailure \/ WhereQuery \/ SelectQuery \/ Return

Spec == Init /\ [][Next]_vars

\* The statements of the batch that the loop has to work on.
Worked == {k \in DOMAIN queries : Qualifies(qualifier, queries[k])}

\* The columns a statement names unqualified or qualified with the table.
RECURSIVE TokenIdentifiers(_)
TokenIdentifiers(tokens) ==
    IF tokens = <<>> THEN {}
    ELSE Range(Head(tokens).ids) \cup TokenIdentifiers(Tail(tokens))

OwnColumns(query) ==
    {id[2] : id \in {x \in TokenIdentifiers(query.tokens) \cup Range(query.columns) :
                         x[1] \in {None, SelfName}}}

\* C2: the list find_index_candidates builds holds no two candidates with
\* the same column sequence.
C2_NoDuplicateCandidates == NoDup(index_candidates)

\* C3: every column of every candidate found for the table was named, by a
\* statement worked on, unqualified or qualified with the table's name.
C3_OnlyOwnColumns ==
    \A i \in DOMAIN index_candidates : \A col \in Range(index_candidates[i]) :
        \E k \in Worked : k <= q_pos /\ col \in OwnColumns(queries[k])

\* C6: a statement that does not parse raises nothing out of
\* find_index_candidates, and the statements after it are still worked on.
C6_ParseFailureSkipped ==
    /\ fic_status # "raised"
    /\ fic_status = "returned" =>
           \A k \in Worked : ~ParsedRaises(queries[k]) /\ HasWhere(queries[k]) =>
               \A c \in Range(find_index_candidates_from_where_query(SelfName, queries[k])) :
                   c # <<>> => c \in Range(index_candidates)

----------------------------------------------------------------------------
(* QueryBenchmark: the scope and the comparison of its two captures.       *)

\* Rows of an ANALYZE answer, one per row source of the plan.
PlanRows ==
    {[r_rows |-> 10, r_filtered |-> 50, Extra |-> "Using where"],
     [r_rows |-> 10, r_filtered |-> 100, Extra |-> "Using where"],
     [r_rows |-> 5, r_filtered |-> 100, Extra |-> "Using index"]}

MaxCandidates == 2
MaxPlanRows == 2

Plans == UNION {[1..n -> PlanRows] : n \in 0..MaxPlanRows}

RECURSIVE TotalRows(_)
TotalRows(d) == IF d = <<>> THEN 0 ELSE Len(Head(d)) + TotalRows(Tail(d))

\* The answers the planner can give for n candidates: one plan each, with
\* at most MaxPlanRows row sources over all the plans.
Databases(n) == {d \in [1..n -> Plans] : TotalRows(d) <= MaxPlanRows}

\* QueryBenchmark.conduct_benchmark: one ANALYZE answer per candidate.
conduct_benchmark(d) == d

\* frappe.utils.flt as compare_results uses it: a number stays what it is
\* (r_rows, r_filtered), a text that is no number becomes 0 (Extra).
flt_number(x) == x

flt_text(x) == 0

FltRow(row) ==
    [r_rows |-> flt_number(row.r_rows), r_filtered |-> flt_number(row.r_filtered),
     Extra |-> flt_text(row.Extra)]

Min(a, b) == IF a < b THEN a ELSE b

\* The <<i, j>> that the two loops of compare_results visit, in order.
Visited(b, a) ==
    UNION {{<<i, j>> : j \in 1..Min(Len(b[i]), Len(a[i]))} : i \in 1..Min(Len(b), Len(a))}

\* QueryBenchmark.compare_results. The table results is built by repeating
\* one list holding one dict len(before) times each way, so every
\* results[i][j] is that one dict: cell is what it holds when the loops
\* end, the last pair written (set: whether anything was written).
\* results[i][j] with j >= len(before) raises IndexError.
compare_results(b, a) ==
    LET pairs == Visited(b, a)
        last == CHOOSE p \in pairs :
                    \A q \in pairs : q[1] < p[1] \/ (q[1] = p[1] /\ q[2] <= p[2])
    IN  IF \E p \in pairs : p[2] > Len(b)
        THEN [raised |-> TRUE, size |-> Len(b), set |-> FALSE,
              before |-> <<>>, after |-> <<>>]
        ELSE IF pairs = {}
        THEN [raised |-> FALSE, size |-> Len(b), set |-> FALSE,
              before |-> <<>>, after |-> <<>>]
        ELSE [raised |-> FALSE, size |-> Len(b), set |-> TRUE,
              before |-> FltRow(b[last[1]][last[2]]),
              after |-> FltRow(a[last[1]][last[2]])]

\* The body of the loop over a context_table: does this context mark a
\* change?
ChangeDetected(bf, af) ==
    LET rows_read_changed == bf.r_rows # af.r_rows
        rows_selectivity_changed == bf.r_filtered # af.r_filtered
    IN  IF ~rows_read_changed /\ ~rows_selectivity_changed THEN FALSE
        ELSE IF rows_selectivity_changed /\ bf.r_filtered > af.r_filtered THEN FALSE
        ELSE TRUE

\* QueryBenchmark.get_unchanged_results: the items yielded, in order. Every
\* context of every context_table is the one dict of compare_results; a
\* dict nothing was written to compares equal on every key.
get_unchanged_results(b, a) ==
    LET res == compare_results(b, a)
        changed == res.set /\ ChangeDetected(res.before, res.after)
        item(q) == [q_id |-> q - 1, before |-> res.before, after |-> res.after]
    IN  IF res.raised THEN [status |-> "error", items |-> <<>>]
        ELSE IF changed THEN [status |-> "ok", items |-> <<>>]
        ELSE [status |-> "ok", items |-> [q \in 1..res.size |-> item(q)]]

InitBench ==
    /\ \E n \in 1..MaxCandidates : db \in Databases(n)
    /\ before = <<>>
    /\ after = <<>>
    /\ qb_state = "Idle"
    /\ step = "pending"
    /\ log = <<>>
    /\ unchanged = [status |-> "none", items |-> <<>>]
    /\ WhereIdle /\ BatchIdle /\ RecordIdle /\ SampleIdle

\* QueryBenchmark.__enter__
Enter ==
    /\ qb_state = "Idle"
    /\ before' = conduct_benchmark(db)
    /\ qb_state' = "BeforeCaptured"
    /\ log' = Append(log, "before")
    /\ UNCHANGED <<db, after, step, unchanged>>
    /\ UNCHANGED <<whereVars, batchVars, recordVars, sampleVars>>

\* The body of the with statement ends normally: the caller made the change
\* under test (or none), and the planner answers as it then does.
CallerStep ==
    /\ qb_state = "BeforeCaptured"
    /\ step = "pending"
    /\ db' \in Databases(Len(db))
    /\ step' = "done"
    /\ log' = Append(log, "step")
    /\ UNCHANGED <<before, after, qb_state, unchanged>>
    /\ UNCHANGED <<whereVars, batchVars, recordVars, sampleVars>>

\* The body of the with statement raises.
CallerStepFails ==
    /\ qb_state = "BeforeCaptured"
    /\ step = "pending"
    /\ db' \in Databases(Len(db))
    /\ step' = "failed"
    /\ log' = Append(log, "step")
    /\ UNCHANGED <<before, after, qb_state, unchanged>>
    /\ UNCHANGED <<whereVars, batchVars, recordVars, sampleVars>>

\* __exit__ that returns at once when the body raised.
ExitUnlessRaised ==
    /\ qb_state = "BeforeCaptured"
    /\ step = "done"
    /\ after' = conduct_benchmark(db)
    /\ qb_state' = "AfterCaptured"
    /\ log' = Append(log, "after")
    /\ UNCHANGED <<db, before, step, unchanged>>
    /\ UNCHANGED <<whereVars, batchVars, recordVars, sampleVars>>

\* QueryBenchmark.__exit__: the with statement calls it when its body has
\* ended, normally or not.
Exit ==
    /\ qb_state = "BeforeCaptured"
    /\ step # "pending"
    /\ after' = conduct_benchmark(db)
    /\ qb_state' = "AfterCaptured"
    /\ log' = Append(log, "after")
    /\ UNCHANGED <<db, before, step, unchanged>>
    /\ UNCHANGED <<whereVars, batchVars, recordVars, sampleVars>>

\* The caller runs the generator of get_unchanged_results to its end.
GetUnchangedResults ==
    /\ qb_state = "AfterCaptured"
    /\ unchanged.status = "none"
    /\ unchanged' = get_unchanged_results(before, after)
    /\ UNCHANGED <<db, before, after, qb_state, step, log>>
    /\ UNCHANGED <<whereVars, batchVars, recordVars, sampleVars>>

NextBench == Enter \/ CallerStep \/ CallerStepFails \/ Exit \/ GetUnchangedResults

SpecBench == InitBench /\ [][NextBench]_vars

\* The with statement runs __enter__, its body and __exit__ without waiting
\* on anything outside it.
FairSpecBench == SpecBench /\ WF_vars(Enter) /\ WF_vars(CallerStep \/ CallerStepFails)
                     /\ WF_vars(Exit)

\* A row source shows no measurable change: both metrics are equal, or
\* r_filtered went down.
NoMeasurableChange(bf, af) ==
    \/ bf.r_rows = af.r_rows /\ bf.r_filtered = af.r_filtered
    \/ bf.r_filtered > af.r_filtered

OwnPlanUnchanged(i) ==
    \A j \in 1..Min(Len(before[i]), Len(after[i])) :
        NoMeasurableChange(before[i][j], after[i][j])

Yielded == {unchanged.items[k].q_id + 1 : k \in DOMAIN unchanged.items}

\* C4: when get_unchanged_results runs to its end, it yields a candidate if
\* and only if every row source of the candidate's own plan shows no
\* measurable change, whatever the plans of the other candidates show.
C4_YieldedIffOwnPlanUnchanged ==
    unchanged.status = "ok" =>
        \A i \in DOMAIN before : i \in Yielded <=> OwnPlanUnchanged(i)

\* C5: when every plan is the same before and after the scope,
\* get_unchanged_results ends without an error and yields every candidate
\* once, each with before equal to after.
C5_RoundTrip ==
    unchanged.status # "none" /\ before = after =>
        /\ unchanged.status = "ok"
        /\ Len(unchanged.items) = Len(before)
        /\ Yielded = DOMAIN before
        /\ \A k \in DOMAIN unchanged.items :
               unchanged.items[k].before = unchanged.items[k].after

\* The captures and the caller's step, in the order of the state machine.
ScopeOrder ==
    /\ qb_state = "Idle" => log = <<>> /\ step = "pending"
    /\ qb_state = "BeforeCaptured" =>
           /\ before = IF step = "pending" THEN db ELSE before
           /\ log = IF step = "pending" THEN <<"before">> ELSE <<"before", "step">>
    /\ qb_state = "AfterCaptured" =>
           /\ log = <<"before", "step", "after">>
           /\ step # "pending"
           /\ after = db
    /\ unchanged.status # "none" => qb_state = "AfterCaptured"

\* C10: the scope goes Idle, BeforeCaptured, AfterCaptured: the before
\* capture precedes the caller's step, the after capture follows it, the
\* after capture is reached from BeforeCaptured also when the step failed,
\* AfterCaptured is never left, and results are compared only there.
C10_ScopeStateMachine ==
    /\ []ScopeOrder
    /\ [][qb_state = "AfterCaptured" => qb_state' = "AfterCaptured"]_vars
    /\ (qb_state = "BeforeCaptured") ~> (qb_state = "AfterCaptured")

\* The after capture has run although the caller's step failed.
C10_Witness ==
    /\ qb_state = "AfterCaptured"
    /\ step = "failed"
    /\ log = <<"before", "step", "after">>
    /\ after = db /\ after # before

----------------------------------------------------------------------------
(* record_query, each call followed by save.                               *)

Texts == {"SELECT 1", "SELECT 2", "SELECT 3"}

ParameterizedQueries == {None, "SELECT %s"}

\* call_stack arguments: None, an empty list, a list of frames.
CallStacks == {None, "empty", "frames"}

Truthy(call_stack) == call_stack = "frames"

\* frappe.as_json
as_json(call_stack) ==
    CASE call_stack = None -> "null"
      [] call_stack = "empty" -> "[]"
      [] OTHER -> "[frames]"

\* Names the store gives the documents it inserts, in order.
DocNames == <<"q-0001", "q-0002", "q-0003">>

\* frappe.get_all("MariaDB Query", {"query": query}, limit=1)
get_all(st, query) ==
    LET hits == {i \in DOMAIN st : st[i].query = query}
    IN  IF hits = {} THEN <<>>
        ELSE <<st[CHOOSE i \in hits : \A k \in hits : i <= k].name>>

\* frappe.get_doc("MariaDB Query", name)
get_doc(st, name) == st[CHOOSE i \in DOMAIN st : st[i].name = name]

\* record_query that starts the count of a known text over.
record_query_restart(st, query, p_query, call_stack) ==
    [name |-> IF get_all(st, query) # <<>> THEN get_all(st, query)[1] ELSE None,
     query |-> query, parameterized_query |-> p_query, occurence |-> 1,
     call_stack |-> as_json(call_stack)]

\* record_query: the document it returns.
record_query(st, query, p_query, call_stack) ==
    LET query_name == get_all(st, query)
        doc == get_doc(st, query_name[1])
    IN  IF query_name # <<>>
        THEN [doc EXCEPT !.parameterized_query = p_query,
                         !.occurence = doc.occurence + 1,
                         !.call_stack = IF Truthy(call_stack) THEN as_json(call_stack)
                                        ELSE doc.call_stack]
        ELSE [name |-> None, query |-> query, parameterized_query |-> p_query,
              occurence |-> 1, call_stack |-> as_json(call_stack)]

\* Document.save: a document without a name is inserted under a new name,
\* a named one replaces the stored document of that name.
save(st, doc) ==
    IF doc.name = None
    THEN Append(st, [doc EXCEPT !.name = DocNames[Len(st) + 1]])
    ELSE [i \in DOMAIN st |-> IF st[i].name = doc.name THEN doc ELSE st[i]]

MaxCalls == 4

TotalCalls == calls["SELECT 1"] + calls["SELECT 2"] + calls["SELECT 3"]

InitRecord ==
    /\ store = <<>>
    /\ pending = <<>>
    /\ saved_name = [t \in Texts |-> {}]
    /\ calls = [t \in Texts |-> 0]
    /\ WhereIdle /\ BatchIdle /\ BenchIdle /\ SampleIdle

\* A call of record_query; the caller holds the document returned.
RecordQuery ==
    /\ pending = <<>>
    /\ TotalCalls < MaxCalls
    /\ \E query \in Texts, p_query \in ParameterizedQueries, call_stack \in CallStacks :
        /\ pending' = <<record_query(store, query, p_query, call_stack)>>
        /\ calls' = [calls EXCEPT ![query] = @ + 1]
    /\ UNCHANGED <<store, saved_name>>
    /\ UNCHANGED <<whereVars, batchVars, benchVars, sampleVars>>

\* The caller saves the document it holds.
Save ==
    /\ pending # <<>>
    /\ store' = save(store, pending[1])
    /\ saved_name' = [saved_name EXCEPT ![pending[1].query] =
                          @ \cup {IF pending[1].name = None THEN DocNames[Len(store) + 1]
                                   ELSE pending[1].name}]
    /\ pending' = <<>>
    /\ UNCHANGED calls
    /\ UNCHANGED <<whereVars, batchVars, benchVars, sampleVars>>

NextRecord == RecordQuery \/ Save

SpecRecord == InitRecord /\ [][NextRecord]_vars

Stored(t) == {i \in DOMAIN store : store[i].query = t}

\* C8: with every recorded document saved, each text recorded has one
\* stored document, every save of the text gave that document's name, and
\* the document's occurence is the number of times the text was recorded.
C8_UpsertByText ==
    pending = <<>> =>
        \A t \in Texts :
            /\ Cardinality(Stored(t)) = IF calls[t] = 0 THEN 0 ELSE 1
            /\ \A i \in Stored(t) :
                   /\ store[i].occurence = calls[t]
                   /\ saved_name[t] = {store[i].name}
            /\ \A i, k \in DOMAIN store : i # k => store[i].name # store[k].name

\* Two texts recorded and saved, one of them more than once.
C8_Witness ==
    /\ pending = <<>>
    /\ \E t \in Texts : calls[t] >= 3 /\ \E i \in Stored(t) : store[i].occurence = calls[t]
    /\ \E t \in Texts : calls[t] = 1 /\ Stored(t) # {}

----------------------------------------------------------------------------
(* Query.get_sample. A text is a sequence of characters.                   *)

\* What statements are written from: a space, a letter, a number, a
\* positional marker, named markers.
Pieces ==
    {<<" ">>, <<"x">>, <<"2">>, <<"%", "s">>, <<"%", "(", "n", ")", "s">>,
     <<"%", "(", ")", "s">>}

MaxPieces == 3

RECURSIVE Flatten(_)
Flatten(ps) == IF ps = <<>> THEN <<>> ELSE Head(ps) \o Flatten(Tail(ps))

WordChars == {"x", "n", "s", "1", "2"}

StartsWith(s, pat) == Len(s) >= Len(pat) /\ SubSeq(s, 1, Len(pat)) = pat

Drop(s, n) == SubSeq(s, n + 1, Len(s))

RECURSIVE Contains(_, _)
\* pat in s
Contains(s, pat) ==
    IF Len(s) < Len(pat) THEN FALSE
    ELSE StartsWith(s, pat) \/ Contains(Tail(s), pat)

RECURSIVE Replace(_, _, _)
\* s.replace(pat, rep), pat not empty
Replace(s, pat, rep) ==
    IF Len(s) < Len(pat) THEN s
    ELSE IF StartsWith(s, pat) THEN rep \o Replace(Drop(s, Len(pat)), pat, rep)
    ELSE <<Head(s)>> \o Replace(Tail(s), pat, rep)

RECURSIVE WordRun(_)
\* The length of the longest run of word characters s starts with.
WordRun(s) == IF s # <<>> /\ Head(s) \in WordChars THEN 1 + WordRun(Tail(s)) ELSE 0

\* PARAMS_PATTERN matched at the start of s: the length of the match, or 0.
\* The pattern is %( then word characters then )s.
MatchParams(s) ==
    IF StartsWith(s, <<"%", "(">>)
    THEN LET w == WordRun(Drop(s, 2))
         IN  IF StartsWith(Drop(s, 2 + w), <<")", "s">>) THEN 2 + w + 2 ELSE 0
    ELSE 0

RECURSIVE FindAll(_)
\* PARAMS_PATTERN.findall(s): the matches from left to right, none
\* overlapping another.
FindAll(s) ==
    IF s = <<>> THEN <<>>
    ELSE IF MatchParams(s) > 0
         THEN <<SubSeq(s, 1, MatchParams(s))>> \o FindAll(Drop(s, MatchParams(s)))
         ELSE FindAll(Tail(s))

RECURSIVE ReplaceEach(_, _, _)
\* for k, v in ...: ret = ret.replace(k, v)
ReplaceEach(s, keys, v) ==
    IF keys = <<>> THEN s ELSE ReplaceEach(Replace(s, Head(keys), v), Tail(keys), v)

RECURSIVE LStrip(_)
LStrip(s) == IF s # <<>> /\ Head(s) = " " THEN LStrip(Tail(s)) ELSE s

RECURSIVE RStrip(_)
RStrip(s) == IF s # <<>> /\ s[Len(s)] = " " THEN RStrip(SubSeq(s, 1, Len(s) - 1)) ELSE s

\* str.strip
Strip(s) == RStrip(LStrip(s))

RECURSIVE Squeeze(_)
\* Runs of spaces become one space.
Squeeze(s) ==
    IF Len(s) < 2 THEN s
    ELSE IF s[1] = " " /\ s[2] = " " THEN Squeeze(Tail(s))
    ELSE <<Head(s)>> \o Squeeze(Tail(s))

\* sqlparse.format(ret, strip_whitespace=True, keyword_case="upper") on
\* these texts, which hold no keyword: the text without the white space
\* around it and with each run of spaces squeezed to one.
format_sql(s) == Squeeze(Strip(s))

\* Query.get_sample
get_sample(text) ==
    LET ret == IF Contains(text, <<"%", "s">>)
               THEN Replace(text, <<"%", "s">>, <<"1">>)
               ELSE ReplaceEach(text, FindAll(text), <<"1">>)
    IN  format_sql(ret)

InitSample ==
    /\ \E n \in 1..MaxPieces : \E ps \in [1..n -> Pieces] : sql = Strip(Flatten(ps))
    /\ sample = <<>>
    /\ gs_pc = "init"
    /\ WhereIdle /\ BatchIdle /\ BenchIdle /\ RecordIdle

\* A call of get_sample on the statement.
GetSample ==
    /\ gs_pc = "init"
    /\ sample' = get_sample(sql)
    /\ gs_pc' = "done"
    /\ UNCHANGED sql
    /\ UNCHANGED <<whereVars, batchVars, benchVars, recordVars>>

NextSample == GetSample

SpecSample == InitSample /\ [][NextSample]_vars

RECURSIVE HasNamedMarker(_)
HasNamedMarker(s) == s # <<>> /\ (MatchParams(s) > 0 \/ HasNamedMarker(Tail(s)))

HasPositionalMarker(s) == Contains(s, <<"%", "s">>)

\* C9: the sample holds no placeholder marker, positional or named.
C9_SampleHasNoMarker ==
    gs_pc = "done" => ~HasPositionalMarker(sample) /\ ~HasNamedMarker(sample)

====
